---- MODULE Spec2Model ----
(***************************************************************************)
(* A model of the CCNET bill-validator driver of cc_validator_api.go: the  *)
(* connection life cycle (NewConnection, Open, Close), the commands built  *)
(* on sendRequest / readResponse, the frame checksum GetCRC16 and the      *)
(* 24-bit bill-type masks of SetSecurity, EnableBillTypes and GetStatus.   *)
(*                                                                         *)
(* The serial port (github.com/tarm/serial) is the environment: a Write or *)
(* a Read may fail, a Read returns the next n bytes the device sends, and  *)
(* n = 0 is a read that timed out.                                         *)
(***************************************************************************)
EXTENDS Integers, Sequences, FiniteSets, TLC

(***************************************************************************)
(* Program constants.                                                      *)
(***************************************************************************)
StartCode == 2

PeripheralAddress == 3

maxReadCount == 1050

CrcPoly == 33800

MinFrame == 6

(***************************************************************************)
(* Bounds of the model.                                                    *)
(***************************************************************************)
\* successful serial.OpenPort calls in one behaviour
MaxHandles == 2

\* reads that time out (n = 0) while the device still has bytes to send
MaxPause == 1

\* size of the bill-type sets the codec specification draws
MaxSetSize == 2

\* length of the inputs GetCRC16 is applied to on its own
MaxCrcLen == 2

\* bytes a bill table carries behind its 24 entries
MaxTail == 1

\* commands the two callers of one connection invoke between them
MaxCalls == 2

(***************************************************************************)
(* Bits.                                                                    *)
(***************************************************************************)
BitAt(v, i) == (v \div (2 ^ i)) % 2

\* bit i of a ^ b, in place
XorBit(a, b, i) == ((BitAt(a, i) + BitAt(b, i)) % 2) * (2 ^ i)

\* uint16 ^ uint16
Xor16(a, b) ==
    XorBit(a, b, 0) + XorBit(a, b, 1) + XorBit(a, b, 2) + XorBit(a, b, 3)
    + XorBit(a, b, 4) + XorBit(a, b, 5) + XorBit(a, b, 6) + XorBit(a, b, 7)
    + XorBit(a, b, 8) + XorBit(a, b, 9) + XorBit(a, b, 10) + XorBit(a, b, 11)
    + XorBit(a, b, 12) + XorBit(a, b, 13) + XorBit(a, b, 14) + XorBit(a, b, 15)

\* the byte with exactly the bits of S set: the |= of 1 << i over i in S
RECURSIVE OrBits(_)
OrBits(S) ==
    IF S = {} THEN 0
    ELSE LET x == CHOOSE y \in S : TRUE IN (2 ^ x) + OrBits(S \ {x})

Range(s) == {s[i] : i \in 1..Len(s)}

(***************************************************************************)
(* GetCRC16: the inner loop over the 8 bits of one byte, then the fold     *)
(* over the bytes of bufData.                                              *)
(***************************************************************************)
\* a bug: the polynomial is never applied
CrcBitShiftOnly(TmpCRC) == TmpCRC \div 2

\* one pass of the inner loop: shift right, xor the polynomial on a 1 bit
CrcBit(TmpCRC) ==
    IF TmpCRC % 2 = 1 THEN Xor16(TmpCRC \div 2, CrcPoly) ELSE TmpCRC \div 2

\* for j := 0; j < 8; j++  (each pass works on the value of the one before)
RECURSIVE CrcBits(_, _)
CrcBits(TmpCRC, j) ==
    IF j >= 8 THEN TmpCRC
    ELSE CHOOSE r \in {CrcBits(t, j + 1) : t \in {CrcBit(TmpCRC)}} : TRUE

\* for i := 0; i < len(bufData); i++
RECURSIVE CrcFold(_, _, _)
CrcFold(bufData, i, CRC) ==
    IF i > Len(bufData) THEN CRC
    ELSE CHOOSE r \in {CrcFold(bufData, i + 1, t) :
                           t \in {CrcBits(Xor16(CRC, bufData[i]), 0)}} : TRUE

GetCRC16(bufData) == CrcFold(bufData, 1, 0)

\* binary.LittleEndian: a uint16 as two bytes, and two bytes as a uint16
PutUint16LE(crc) == <<crc % 256, crc \div 256>>

Uint16LE(b) == b[1] + 256 * b[2]

(***************************************************************************)
(* The bill-type masks.  SetSecurity and EnableBillTypes set, for each     *)
(* index t, bit 7 - pos + pos/8*8 of byte pos/8 with pos = 23 - t.         *)
(* GetStatus reads bit i of byte b as index (16 - b*8) + 7 - i, appending  *)
(* in the order of its two loops.                                          *)
(***************************************************************************)
MaskByteOf(t) == (23 - t) \div 8

MaskBitOf(t) == 7 - (23 - t) + ((23 - t) \div 8) * 8

MaskByte(S, k) ==
    OrBits({MaskBitOf(t) : t \in {u \in S : MaskByteOf(u) = k}})

EncodeMask(S) == <<MaskByte(S, 0), MaskByte(S, 1), MaskByte(S, 2)>>

RECURSIVE DecodeBits(_, _, _)
DecodeBits(v, shift, i) ==
    IF i > 7 THEN <<>>
    ELSE (IF BitAt(v, i) # 0 THEN <<shift + 7 - i>> ELSE <<>>) \o DecodeBits(v, shift, i + 1)

RECURSIVE DecodeBytes(_, _)
DecodeBytes(bytes, b) ==
    IF b >= Len(bytes) THEN <<>>
    ELSE DecodeBits(bytes[b + 1], 16 - b * 8, 0) \o DecodeBytes(bytes, b + 1)

DecodeMask(bytes) == DecodeBytes(bytes, 0)

(***************************************************************************)
(* Frames.  sendRequest writes start code, address, byte(6 + len(payload)), *)
(* the command code, the payload and the little-endian GetCRC16 of all of  *)
(* that.                                                                   *)
(***************************************************************************)
Seal(body) == CHOOSE f \in {b \o PutUint16LE(GetCRC16(b)) : b \in {body}} : TRUE

\* a bug: the length byte leaves out the two checksum bytes
BuildRequestShort(commandCode, bytesData) ==
    Seal(<<StartCode, PeripheralAddress, (4 + Len(bytesData)) % 256, commandCode>> \o bytesData)

BuildRequest(commandCode, bytesData) ==
    Seal(<<StartCode, PeripheralAddress, (6 + Len(bytesData)) % 256, commandCode>> \o bytesData)

\* what a well-behaved device sends: header, total length, data, checksum
DeviceFrame(data) == Seal(<<StartCode, PeripheralAddress, 5 + Len(data)>> \o data)

(***************************************************************************)
(* Errors.  The transport's errors are opaque values the code hands on.    *)
(***************************************************************************)
NoError == "nil"

ErrClosed == "serial port is closed"

ErrAlreadyOpened == "port already opened"

ErrNotOpened == "port not opened"

ErrReadTries == "Reads tries exceeded"

ErrFormat == "Response format invalid"

ErrVerification == "Response verification failed"

ErrNack == "Nack"

ErrIllegal == "Illegal command"

WriteError == "transport: write failed"

ReadError == "transport: read failed"

OpenError == "transport: open failed"

CloseError == "transport: close failed"

\* a Go run-time panic: the call does not return to its caller
Panic == "panic"

(***************************************************************************)
(* The commands and their codes.                                           *)
(***************************************************************************)
CommandCode ==
    [Reset |-> 48, GetStatus |-> 49, SetSecurity |-> 50, Poll |-> 51,
     EnableBillTypes |-> 52, Stack |-> 53, Return |-> 54, Identification |-> 55,
     Hold |-> 56, SetBarcodeParameters |-> 58, ExtractBarcodeData |-> 58,
     GetBillTable |-> 65, GetCRC32 |-> 81, Ack |-> 0, Nack |-> 255]

Commands == DOMAIN CommandCode

(***************************************************************************)
(* readResponse after its loop: header, checksum, the three bare replies,  *)
(* then buf[3:].  payload <<>> with no error is the nil slice of a bare    *)
(* ACK; a substantive response always has at least one byte.               *)
(***************************************************************************)
Body(b) == SubSeq(b, 1, Len(b) - 2)

Trailer(b) == SubSeq(b, Len(b) - 1, Len(b))

HeaderOK(b) == b[1] = StartCode /\ b[2] = PeripheralAddress

ChecksumOK(b) == Uint16LE(Trailer(b)) = GetCRC16(Body(b))

\* a bug: the command byte is dropped with the header
StripFour(b) == SubSeq(b, 5, Len(b))

Strip(b) == SubSeq(b, 4, Len(b))

\* a bug: the bare replies told by their byte alone, whatever the length
ClassifyByByte(b) ==
    IF b[4] = 0 THEN [payload |-> <<>>, err |-> NoError]
    ELSE IF b[4] = 255 THEN [payload |-> <<>>, err |-> ErrNack]
    ELSE IF b[4] = 48 THEN [payload |-> <<>>, err |-> ErrIllegal]
    ELSE [payload |-> Strip(b), err |-> NoError]

Classify(b) ==
    IF Len(b) = 4 /\ b[4] = 0 THEN [payload |-> <<>>, err |-> NoError]
    ELSE IF Len(b) = 4 /\ b[4] = 255 THEN [payload |-> <<>>, err |-> ErrNack]
    ELSE IF Len(b) = 4 /\ b[4] = 48 THEN [payload |-> <<>>, err |-> ErrIllegal]
    ELSE [payload |-> Strip(b), err |-> NoError]

\* a bug: the checksum checked before the header
ValidateChecksumFirst(b) ==
    IF ~ChecksumOK(b) THEN [payload |-> <<>>, err |-> ErrVerification]
    ELSE IF ~HeaderOK(b) THEN [payload |-> <<>>, err |-> ErrFormat]
    ELSE Classify(Body(b))

Validate(b) ==
    IF ~HeaderOK(b) THEN [payload |-> <<>>, err |-> ErrFormat]
    ELSE IF ~ChecksumOK(b) THEN [payload |-> <<>>, err |-> ErrVerification]
    ELSE Classify(Body(b))

\* a bug: the loop breaks once the length byte is reached or passed
FrameCompleteAtLeast(b, total) ==
    /\ ~(total < MinFrame)
    /\ ~(b[3] # 0 /\ b[3] > Len(b))

\* the loop's two continue conditions, negated: the loop breaks
FrameComplete(b, total) ==
    /\ ~(total < MinFrame)
    /\ ~(b[3] # 0 /\ b[3] # Len(b))

\* a bug: the bare ACK acknowledged as well
AnySuccess(r) == r.err = NoError

\* readResponse calls Ack(v) before it returns
Substantive(r) == r.err = NoError /\ r.payload # <<>>

(***************************************************************************)
(* What a command returns: its error and up to three values.  A failed     *)
(* command returns zero values; beyond marks that bytes behind the end of  *)
(* the response were read (Go slices up to the capacity, not the length).  *)
(***************************************************************************)
Result(err, a, b, c) == [err |-> err, a |-> a, b |-> b, c |-> c, beyond |-> FALSE]

Fail(err) == Result(err, <<>>, <<>>, <<>>)

NoResult == Fail("none")

\* a panic after bytes behind the end of the response were read, or not
PanicAfter(beyond) == [Fail(Panic) EXCEPT !.beyond = beyond]

\* the capacities the slice readResponse returns can have: nil has none;
\* buf[3:] of the appended buffer keeps at least the two checksum bytes
\* behind its end, and whatever append allocated above them
Caps(response) ==
    IF response = <<>> THEN {0}
    ELSE {Len(response) + 2, Len(response) + 3, Len(response) + 64}

\* Poll: Status(response[0]), and response[1] when there is one
PollResult(response) ==
    IF response = <<>> THEN Fail(Panic)
    ELSE Result(NoError, <<response[1]>>,
                <<IF Len(response) > 1 THEN response[2] ELSE 0>>, <<>>)

\* GetStatus: response[:3] and response[4:].  A shift of 16 - b*8 below 0
\* stands for the uint it wraps to, 2^64 more.  response[:3] of the nil
\* slice panics; of a shorter response it takes the bytes behind its end,
\* and response[4:] then panics when there are fewer than 4 bytes.
GetStatusResult(response) ==
    IF response = <<>> THEN Fail(Panic)
    ELSE IF Len(response) < 4 THEN PanicAfter(Len(response) < 3)
    ELSE Result(NoError, DecodeMask(SubSeq(response, 1, 3)),
                DecodeMask(SubSeq(response, 5, Len(response))), <<>>)

\* response[low:high], as far as it lies within the response
Slice(response, low, high) ==
    SubSeq(response, low + 1, IF high < Len(response) THEN high ELSE Len(response))

\* Identification: response[:15], response[16:27], response[28:34], each
\* slice in turn, against the capacity cap
IdentificationAt(response, cap) ==
    IF cap < 15 THEN Fail(Panic)
    ELSE IF cap < 27 THEN PanicAfter(Len(response) < 15)
    ELSE IF cap < 34 THEN PanicAfter(Len(response) < 27)
    ELSE [Result(NoError, Slice(response, 0, 15), Slice(response, 16, 27),
                 Slice(response, 28, 34))
              EXCEPT !.beyond = Len(response) < 34]

IdentificationResults(response) ==
    {IdentificationAt(response, cap) : cap \in Caps(response)}

\* a bug: the exponent byte taken one byte early, from the country code
BillExponentEarly(response, i) ==
    LET first == response[i * 5 + 1]
        secondByte == response[i * 5 + 4]
        second == IF secondByte > 128 THEN 0 - (secondByte - 128) ELSE secondByte
    IN [Denomination |-> <<first, second>>,
        CountryCode |-> SubSeq(response, i * 5 + 2, i * 5 + 4)]

\* GetBillTable: entry i from response[i*5], [i*5+1 : i*5+4], [i*5+4].
\* Denomination <<first, second>> is float64(first) * math.Pow(10, second).
Bill(response, i) ==
    LET first == response[i * 5 + 1]
        secondByte == response[i * 5 + 5]
        second == IF secondByte > 128 THEN 0 - (secondByte - 128) ELSE secondByte
    IN [Denomination |-> <<first, second>>,
        CountryCode |-> SubSeq(response, i * 5 + 2, i * 5 + 4)]

\* the loop stops with a panic at the first entry the response does not
\* hold whole: at response[i*5] or response[i*5+4] (an index, checked
\* against the length) or at response[i*5+1 : i*5+4] (a slice, checked
\* against the capacity, and read as far as it goes)
GetBillTableAt(response, cap) ==
    IF Len(response) >= 120
    THEN Result(NoError, [i \in 1..24 |-> Bill(response, i - 1)], <<>>, <<>>)
    ELSE LET i == Len(response) \div 5
         IN IF Len(response) = i * 5 THEN Fail(Panic)
            ELSE IF cap < i * 5 + 4 THEN Fail(Panic)
            ELSE PanicAfter(Len(response) < i * 5 + 4)

GetBillTableResults(response) ==
    {GetBillTableAt(response, cap) : cap \in Caps(response)}

\* what the command makes of readResponse's (response, nil)
Results(op, response) ==
    CASE op = "Poll" -> {PollResult(response)}
      [] op = "GetStatus" -> {GetStatusResult(response)}
      [] op = "Identification" -> IdentificationResults(response)
      [] op = "GetBillTable" -> GetBillTableResults(response)
      [] op \in {"GetCRC32", "ExtractBarcodeData"} -> {Result(NoError, response, <<>>, <<>>)}
      [] OTHER -> {Fail(NoError)}

\* every command: if err != nil return it, else decode
Returns(op, r) == IF r.err # NoError THEN {Fail(r.err)} ELSE Results(op, r.payload)

(***************************************************************************)
(* The state.                                                              *)
(*   config, port, open   the fields of CCValidator (config: non-nil;      *)
(*                        port: the handle, 0 for nil)                     *)
(*   opened, released     the transport: handles serial.OpenPort has given *)
(*                        out, and those Close was called on               *)
(*   pc, call, args       where the call in progress stands, which call it *)
(*                        is and the arguments it was given                *)
(*   stream               the bytes the device has yet to deliver          *)
(*   buf, totalRead, readTriesCount   the locals of readResponse           *)
(*   writes, reads, readErr   the port.Write calls of this call (frame,    *)
(*                        outcome, reads made before), the number of       *)
(*                        port.Read calls, whether one failed              *)
(*   rr, ret              what readResponse returns, what the call returns *)
(*   devMask              the enabled mask a stub device keeps             *)
(*   cpc, cset, cmask, cout   the mask codec applied on its own; cset is   *)
(*                        also the enabled set a stub device last accepted *)
(*   fpc, fin, fout       GetCRC16 or a decoder applied on its own: where  *)
(*                        it stands, its input bytes, what it returns      *)
(*   tpc, tcall, tbuf, ttries, tret   two callers sharing the connection:  *)
(*                        per caller, where its call stands, which call it *)
(*                        is, the buf and readTriesCount of its            *)
(*                        readResponse, and what the call returns          *)
(*   wire                 the bytes the device has sent and no caller has  *)
(*                        read yet, each with the caller it answers        *)
(*   lastw, overlapped, ncalls   the caller whose request was written      *)
(*                        last, whether a call ever began while another    *)
(*                        was in progress, the calls made so far           *)
(***************************************************************************)
VARIABLES config, port, open, opened, released, pc, call, args, stream, buf, totalRead,
          readTriesCount, writes, reads, readErr, rr, ret, devMask,
          cpc, cset, cmask, cout, fpc, fin, fout,
          tpc, tcall, tbuf, ttries, tret, wire, lastw, overlapped, ncalls

conn == <<config, port, open, opened, released>>

locals == <<buf, totalRead, readTriesCount, reads, readErr, rr>>

codec == <<cpc, cset, cmask, cout>>

pure == <<fpc, fin, fout>>

par == <<tpc, tcall, tbuf, ttries, tret, wire, lastw, overlapped, ncalls>>

vars == <<conn, pc, call, args, stream, locals, writes, ret, devMask, codec, pure, par>>

Callers == {1, 2}

NoResponse == [payload |-> <<>>, err |-> "none"]

(***************************************************************************)
(* The inputs the commands are called with, and what the device answers.   *)
(***************************************************************************)
SecurityArgs == {{1}, {24}}

EnableArgs == {<<{0, 1, 2}, {23}>>, <<{24}, {}>>, <<{}, {25}>>}

BarcodeArgs == {<<1, 18>>}

InRange(S) == \A t \in S : t \in 0..23

\* complete, well-formed frames: the bare replies, then substantive ones
GoodFrames ==
    {DeviceFrame(<<0>>), DeviceFrame(<<255>>), DeviceFrame(<<48>>),
     DeviceFrame(<<20>>), DeviceFrame(<<28, 96>>), DeviceFrame(<<255, 0>>)}

\* GetStatus answers: the two masks, and payloads shorter and longer
StatusFrames ==
    {DeviceFrame(<<0, 0, 7, 0, 0, 0>>), DeviceFrame(<<128, 1, 0, 0, 2, 1>>),
     DeviceFrame(<<1, 2, 3>>), DeviceFrame(<<1, 2, 3, 4>>),
     DeviceFrame(<<0, 0, 1, 0, 0, 0, 0, 1>>)}

\* Identification answers: the 34 bytes of the three fields, and 20 of them
IdentificationFrames ==
    {DeviceFrame([j \in 1..34 |-> 64 + j]), DeviceFrame([j \in 1..20 |-> 64 + j])}

\* a GetBillTable answer that ends within its second entry
BillTableFrames == {DeviceFrame(<<5, 85, 83, 65, 0, 1, 85>>)}

\* a wrong address with a matching and with a stale checksum, a checksum
\* sent high byte first, a length byte of 0
BadFrames ==
    {Seal(<<StartCode, 2, 6, 20>>),
     <<3>> \o Tail(DeviceFrame(<<20>>)),
     Body(DeviceFrame(<<20>>)) \o <<Trailer(DeviceFrame(<<20>>))[2], Trailer(DeviceFrame(<<20>>))[1]>>,
     Seal(<<StartCode, PeripheralAddress, 0, 20>>),
     Seal(<<StartCode, PeripheralAddress, 0, 28, 96>>)}

\* frames that never complete: silence, a short burst, a length byte below
\* what is sent
StuckFrames ==
    {<<>>, <<StartCode, PeripheralAddress, 6>>, DeviceFrame(<<20>>) \o <<0>>}

DeviceFrames(op) ==
    GoodFrames \cup BadFrames \cup StuckFrames
        \cup (IF op = "GetStatus" THEN StatusFrames ELSE {})
        \cup (IF op = "Identification" THEN IdentificationFrames ELSE {})
        \cup (IF op = "GetBillTable" THEN BillTableFrames ELSE {})

(***************************************************************************)
(* NewConnection: the port opens, or the zero CCValidator is returned with *)
(* the error.                                                              *)
(***************************************************************************)
Idle ==
    /\ pc = "idle" /\ call = "none" /\ args = <<>> /\ stream = <<>>
    /\ buf = <<>> /\ totalRead = 0 /\ readTriesCount = 0
    /\ writes = <<>> /\ reads = 0 /\ readErr = FALSE
    /\ rr = NoResponse /\ ret = NoResult

CodecOff == cpc = "off" /\ cset = {} /\ cmask = <<>> /\ cout = <<>>

PureOff == fpc = "off" /\ fin = <<>> /\ fout = <<>>

ParOff ==
    /\ tpc = [c \in Callers |-> "off"] /\ tcall = [c \in Callers |-> "none"]
    /\ tbuf = [c \in Callers |-> <<>>] /\ ttries = [c \in Callers |-> 0]
    /\ tret = [c \in Callers |-> "none"]
    /\ wire = <<>> /\ lastw = 0 /\ overlapped = FALSE /\ ncalls = 0

NewConnection ==
    \E err \in {NoError, OpenError} :
        /\ config = (err = NoError)
        /\ port = (IF err = NoError THEN 1 ELSE 0)
        /\ open = (err = NoError)
        /\ opened = (IF err = NoError THEN 1 ELSE 0)
        /\ released = {}

Init == NewConnection /\ Idle /\ devMask = <<0, 0, 0>> /\ CodecOff /\ PureOff /\ ParOff

\* a call starts: the locals of the one before are gone
Enter(op, a) ==
    /\ pc = "idle"
    /\ call' = op /\ args' = a
    /\ buf' = <<>> /\ totalRead' = 0 /\ readTriesCount' = 0
    /\ reads' = 0 /\ readErr' = FALSE /\ rr' = NoResponse

(***************************************************************************)
(* Open and Close.  serial.OpenPort needs a config and may fail.           *)
(***************************************************************************)
Open ==
    /\ Enter("Open", <<>>)
    /\ writes' = <<>> /\ stream' = <<>> /\ pc' = "done"
    /\ IF open
       THEN /\ ret' = Fail(ErrAlreadyOpened)
            /\ UNCHANGED conn
       ELSE \E err \in {NoError, OpenError} :
                IF err = NoError /\ config /\ opened < MaxHandles
                THEN /\ port' = opened + 1
                     /\ opened' = opened + 1
                     /\ open' = TRUE
                     /\ ret' = Fail(NoError)
                     /\ UNCHANGED <<config, released>>
                ELSE /\ ret' = Fail(OpenError)
                     /\ UNCHANGED conn
    /\ UNCHANGED <<devMask, codec, pure, par>>

\* a bug: a failed port.Close leaves the connection marked open
CloseKeepsOpen ==
    /\ Enter("Close", <<>>)
    /\ writes' = <<>> /\ stream' = <<>> /\ pc' = "done"
    /\ IF port = 0 \/ ~open
       THEN /\ ret' = Fail(ErrNotOpened)
            /\ UNCHANGED conn
       ELSE \E err \in {NoError, CloseError} :
                /\ released' = released \cup {port}
                /\ open' = (err # NoError)
                /\ ret' = Fail(err)
                /\ UNCHANGED <<config, port, opened>>
    /\ UNCHANGED <<devMask, codec, pure, par>>

Close ==
    /\ Enter("Close", <<>>)
    /\ writes' = <<>> /\ stream' = <<>> /\ pc' = "done"
    /\ IF port = 0 \/ ~open
       THEN /\ ret' = Fail(ErrNotOpened)
            /\ UNCHANGED conn
       ELSE \E err \in {NoError, CloseError} :
                /\ released' = released \cup {port}
                /\ open' = FALSE
                /\ ret' = Fail(err)
                /\ UNCHANGED <<config, port, opened>>
    /\ UNCHANGED <<devMask, codec, pure, par>>

(***************************************************************************)
(* sendRequest: refuses on a closed connection, else makes one port.Write  *)
(* of the frame and returns the transport's answer werr.                   *)
(***************************************************************************)
\* a bug: no check of v.open
SendUnguarded(commandCode, bytesData, werr, at) ==
    [err |-> werr,
     written |-> <<[frame |-> BuildRequest(commandCode, bytesData),
                    err |-> werr, at |-> at]>>]

SendRequest(commandCode, bytesData, werr, at) ==
    IF ~open
    THEN [err |-> ErrClosed, written |-> <<>>]
    ELSE [err |-> werr,
          written |-> <<[frame |-> BuildRequest(commandCode, bytesData),
                         err |-> werr, at |-> at]>>]

\* the first half of every command: sendRequest, return its error, else go
\* on to readResponse while the device answers with one of frames
Command(op, a, bytesData, frames) ==
    /\ Enter(op, a)
    /\ \E werr \in {NoError, WriteError} :
           LET sent == SendRequest(CommandCode[op], bytesData, werr, 0)
           IN /\ writes' = sent.written
              /\ IF sent.err # NoError
                 THEN /\ ret' = Fail(sent.err)
                      /\ pc' = "done"
                      /\ stream' = <<>>
                 ELSE /\ ret' = NoResult
                      /\ pc' = "read"
                      /\ stream' \in frames
    /\ UNCHANGED conn

\* an index outside 0..23: securityBytes[pos/8] is out of range
OutOfRange(op, a) ==
    /\ Enter(op, a)
    /\ writes' = <<>> /\ stream' = <<>> /\ pc' = "done"
    /\ ret' = Fail(Panic)
    /\ UNCHANGED conn

Plain(op) == Command(op, <<>>, <<>>, DeviceFrames(op)) /\ UNCHANGED <<devMask, codec, pure, par>>

Reset == Plain("Reset")

GetStatus == Plain("GetStatus")

Poll == Plain("Poll")

Identification == Plain("Identification")

GetBillTable == Plain("GetBillTable")

Stack == Plain("Stack")

Return == Plain("Return")

Hold == Plain("Hold")

GetCRC32 == Plain("GetCRC32")

ExtractBarcodeData == Plain("ExtractBarcodeData")

Ack == Plain("Ack")

Nack == Plain("Nack")

SetSecurity ==
    /\ \E security \in SecurityArgs :
           IF InRange(security)
           THEN Command("SetSecurity", <<security>>, EncodeMask(security),
                        DeviceFrames("SetSecurity"))
           ELSE OutOfRange("SetSecurity", <<security>>)
    /\ UNCHANGED <<devMask, codec, pure, par>>

EnableBillTypes ==
    /\ \E a \in EnableArgs :
           IF InRange(a[1]) /\ InRange(a[2])
           THEN Command("EnableBillTypes", a, EncodeMask(a[1]) \o EncodeMask(a[2]),
                        DeviceFrames("EnableBillTypes"))
           ELSE OutOfRange("EnableBillTypes", a)
    /\ UNCHANGED <<devMask, codec, pure, par>>

SetBarcodeParameters ==
    /\ \E a \in BarcodeArgs :
           Command("SetBarcodeParameters", a, <<a[1], a[2]>>,
                   DeviceFrames("SetBarcodeParameters"))
    /\ UNCHANGED <<devMask, codec, pure, par>>

(***************************************************************************)
(* readResponse, one pass of its loop per step.                            *)
(***************************************************************************)
\* readTriesCount reaches maxReadCount: no read is made
ReadTriesExceeded ==
    /\ pc = "read"
    /\ readTriesCount + 1 >= maxReadCount
    /\ readTriesCount' = readTriesCount + 1
    /\ rr' = [payload |-> <<>>, err |-> ErrReadTries]
    /\ ret' \in Returns(call, rr')
    /\ pc' = "done"
    /\ UNCHANGED <<conn, call, args, stream, buf, totalRead, reads, readErr, writes, devMask, codec, pure, par>>

\* a bug: a failed read is tried again
ReadFailsRetried ==
    /\ pc = "read"
    /\ readTriesCount + 1 < maxReadCount
    /\ readTriesCount' = readTriesCount + 1
    /\ reads' = reads + 1
    /\ readErr' = TRUE
    /\ pc' = "read"
    /\ UNCHANGED <<conn, call, args, stream, buf, totalRead, rr, ret, writes, devMask, codec, pure, par>>

\* port.Read fails
ReadFails ==
    /\ pc = "read"
    /\ readTriesCount + 1 < maxReadCount
    /\ readTriesCount' = readTriesCount + 1
    /\ reads' = reads + 1
    /\ readErr' = TRUE
    /\ rr' = [payload |-> <<>>, err |-> ReadError]
    /\ ret' \in Returns(call, rr')
    /\ pc' = "done"
    /\ UNCHANGED <<conn, call, args, stream, buf, totalRead, writes, devMask, codec, pure, par>>

\* port.Read returns n bytes; n = 0 is a read that timed out, which happens
\* when the device has sent all it will, or pauses early in the exchange
ReadBytes ==
    /\ pc = "read"
    /\ readTriesCount + 1 < maxReadCount
    /\ \E n \in 0..Len(stream) :
           /\ n = 0 => (stream = <<>> \/ readTriesCount < MaxPause)
           /\ readTriesCount' = readTriesCount + 1
           /\ reads' = reads + 1
           /\ totalRead' = totalRead + n
           /\ buf' = buf \o SubSeq(stream, 1, n)
           /\ stream' = SubSeq(stream, n + 1, Len(stream))
           /\ IF ~FrameComplete(buf', totalRead')
              THEN /\ pc' = "read"
                   /\ UNCHANGED <<rr, ret>>
              ELSE /\ rr' = Validate(buf')
                   /\ IF Substantive(rr')
                      THEN /\ pc' = "ack"
                           /\ UNCHANGED ret
                      ELSE /\ pc' = "done"
                           /\ ret' \in Returns(call, rr')
    /\ UNCHANGED <<conn, call, args, readErr, writes, devMask, codec, pure, par>>

\* Ack(v): _ = sendRequest(v, 0x00, []byte{}); then readResponse returns
\* buf[3:] and the command decodes it
AckSent ==
    /\ pc = "ack"
    /\ \E werr \in {NoError, WriteError} :
           writes' = writes \o SendRequest(0, <<>>, werr, reads).written
    /\ ret' \in Returns(call, rr)
    /\ pc' = "done"
    /\ UNCHANGED <<conn, call, args, stream, locals, devMask, codec, pure, par>>

\* the call has returned: the caller has its result and may call again
Returned ==
    /\ pc = "done"
    /\ pc' = "idle" /\ call' = "none" /\ args' = <<>> /\ stream' = <<>>
    /\ buf' = <<>> /\ totalRead' = 0 /\ readTriesCount' = 0
    /\ writes' = <<>> /\ reads' = 0 /\ readErr' = FALSE
    /\ rr' = NoResponse /\ ret' = NoResult
    /\ UNCHANGED <<conn, devMask, codec, pure, par>>

Next ==
    \/ Returned
    \/ Open \/ Close
    \/ Reset \/ GetStatus \/ SetSecurity \/ Poll \/ Identification \/ GetBillTable
    \/ EnableBillTypes \/ Stack \/ Return \/ Hold \/ GetCRC32
    \/ SetBarcodeParameters \/ ExtractBarcodeData \/ Ack \/ Nack
    \/ ReadTriesExceeded \/ ReadFails \/ ReadBytes \/ AckSent

Spec == Init /\ [][Next]_vars

(***************************************************************************)
(* A stub device: it accepts EnableBillTypes with a bare ACK, keeps the    *)
(* enabled mask it was sent, and answers GetStatus with that mask and an   *)
(* all-zero security mask.                                                 *)
(***************************************************************************)
StubSets == {{}, {0, 1, 2}} \cup {{t} : t \in 0..23}

StubEscrow == {{}, {4}}

StubEnableBillTypes ==
    /\ \E enabled \in StubSets, escrow \in StubEscrow :
           /\ Command("EnableBillTypes", <<enabled, escrow>>,
                      EncodeMask(enabled) \o EncodeMask(escrow), {DeviceFrame(<<0>>)})
           /\ IF pc' = "read"
              THEN devMask' = SubSeq(writes'[1].frame, 5, 7) /\ cset' = enabled
              ELSE UNCHANGED <<devMask, cset>>
    /\ UNCHANGED <<cpc, cmask, cout, pure, par>>

StubGetStatus ==
    /\ Command("GetStatus", <<>>, <<>>, {DeviceFrame(devMask \o <<0, 0, 0>>)})
    /\ UNCHANGED <<devMask, codec, pure, par>>

StubNext == StubEnableBillTypes \/ StubGetStatus \/ ReadBytes \/ AckSent \/ Returned

SpecStub == Init /\ [][StubNext]_vars

(***************************************************************************)
(* The mask codec on its own: a set of at most MaxSetSize bill types is    *)
(* encoded as the setters encode it, then decoded as GetStatus decodes.    *)
(***************************************************************************)
RECURSIVE SetsUpTo(_)
SetsUpTo(k) ==
    IF k = 0 THEN {{}}
    ELSE LET smaller == SetsUpTo(k - 1)
         IN smaller \cup {S \cup {t} : S \in smaller, t \in 0..23}

CodecInit ==
    /\ config = FALSE /\ port = 0 /\ open = FALSE /\ opened = 0 /\ released = {}
    /\ Idle /\ devMask = <<0, 0, 0>>
    /\ cpc = "input" /\ cset \in SetsUpTo(MaxSetSize) /\ cmask = <<>> /\ cout = <<>>
    /\ PureOff /\ ParOff

CodecEncode ==
    /\ cpc = "input"
    /\ cmask' = EncodeMask(cset)
    /\ cpc' = "encoded"
    /\ UNCHANGED <<conn, pc, call, args, stream, locals, writes, ret, devMask, cset, cout, pure, par>>

CodecDecode ==
    /\ cpc = "encoded"
    /\ cout' = DecodeMask(cmask)
    /\ cpc' = "decoded"
    /\ UNCHANGED <<conn, pc, call, args, stream, locals, writes, ret, devMask, cset, cmask, pure, par>>

CodecNext == CodecEncode \/ CodecDecode

SpecCodec == CodecInit /\ [][CodecNext]_vars

(***************************************************************************)
(* GetCRC16 on its own: applied to every single byte and to short          *)
(* sequences of a few bytes, then to the input with its checksum appended  *)
(* as sendRequest appends it.                                              *)
(***************************************************************************)
CrcBytes == {0, 1, 2, 128, 255}

RECURSIVE SeqsUpTo(_)
SeqsUpTo(k) ==
    IF k = 0 THEN {<<>>}
    ELSE LET shorter == SeqsUpTo(k - 1)
         IN shorter \cup {Append(q, x) : q \in shorter, x \in CrcBytes}

CrcInputs == SeqsUpTo(MaxCrcLen) \cup {<<x>> : x \in 0..255}

CrcInit ==
    /\ config = FALSE /\ port = 0 /\ open = FALSE /\ opened = 0 /\ released = {}
    /\ Idle /\ devMask = <<0, 0, 0>> /\ CodecOff /\ ParOff
    /\ fpc = "input" /\ fin \in CrcInputs /\ fout = <<>>

CrcApply ==
    /\ fpc = "input"
    /\ fout' = <<GetCRC16(fin)>>
    /\ fpc' = "crc"
    /\ UNCHANGED <<conn, pc, call, args, stream, locals, writes, ret, devMask, codec, fin, par>>

CrcSeal ==
    /\ fpc = "crc"
    /\ fin' = fin \o PutUint16LE(fout[1])
    /\ fout' = <<GetCRC16(fin')>>
    /\ fpc' = "sealed"
    /\ UNCHANGED <<conn, pc, call, args, stream, locals, writes, ret, devMask, codec, par>>

CrcNext == CrcApply \/ CrcSeal

SpecCrc == CrcInit /\ [][CrcNext]_vars

(***************************************************************************)
(* The bill-table decoder on its own: payloads of 24 entries, all alike    *)
(* but one, with up to MaxTail bytes behind them.                          *)
(***************************************************************************)
\* first byte, three bytes of country code, exponent byte
TableEntries ==
    {<<first, 85, 83, 65, e>> : first \in {0, 5, 255}, e \in {0, 2, 128, 129, 130, 255}}

FillerEntry == <<9, 90, 90, 90, 1>>

\* 24 entries: entry at k, FillerEntry elsewhere
TableWith(k, entry) ==
    [j \in 1..120 |-> IF (j - 1) \div 5 = k THEN entry[((j - 1) % 5) + 1]
                                          ELSE FillerEntry[((j - 1) % 5) + 1]]

TableInputs ==
    {TableWith(k, entry) \o [j \in 1..tail |-> 7] :
         k \in 0..23, entry \in TableEntries, tail \in 0..MaxTail}

TableInit ==
    /\ config = FALSE /\ port = 0 /\ open = FALSE /\ opened = 0 /\ released = {}
    /\ Idle /\ devMask = <<0, 0, 0>> /\ CodecOff /\ ParOff
    /\ fpc = "input" /\ fin \in TableInputs /\ fout = <<>>

TableDecode ==
    /\ fpc = "input"
    /\ fout' \in {<<r>> : r \in GetBillTableResults(fin)}
    /\ fpc' = "decoded"
    /\ UNCHANGED <<conn, pc, call, args, stream, locals, writes, ret, devMask, codec, fin, par>>

TableNext == TableDecode

SpecTable == TableInit /\ [][TableNext]_vars

(***************************************************************************)
(* Two callers on one open connection.  CCValidator has no lock: each      *)
(* caller runs sendRequest and then the loop of readResponse on the same   *)
(* port, a step at a time, and a port.Read returns the next bytes the      *)
(* device has sent, whichever request they answer.  The device answers     *)
(* every request it receives, in the order of the writes.                  *)
(***************************************************************************)
ConcCommands == {"Poll", "Reset"}

\* Poll is answered with a status, Reset with a bare ACK
ConcAnswer(op) == IF op = "Poll" THEN DeviceFrame(<<20>>) ELSE DeviceFrame(<<0>>)

\* the bytes of frame f, each marked as part of the answer to caller c
Tagged(f, c) == [i \in 1..Len(f) |-> [b |-> f[i], of |-> c]]

Bytes(q) == [i \in 1..Len(q) |-> q[i].b]

\* what a port.Read can return of the bytes w that wait: all of them, the
\* first three, or nothing when a read times out
ReadSizes(w) == {n \in 0..Len(w) : n \in {0, 3, Len(w)}}

InProgress(c) == tpc[c] \in {"read", "ack"}

\* a bug: bytes are read off the port while the caller has no command going
ReadingOrIdle(c) == tpc[c] \in {"read", "idle"}

\* the caller is in the loop of readResponse
Reading(c) == tpc[c] = "read"

ConcInit ==
    /\ config = TRUE /\ port = 1 /\ open = TRUE /\ opened = 1 /\ released = {}
    /\ Idle /\ devMask = <<0, 0, 0>> /\ CodecOff /\ PureOff
    /\ tpc = [c \in Callers |-> "idle"] /\ tcall = [c \in Callers |-> "none"]
    /\ tbuf = [c \in Callers |-> <<>>] /\ ttries = [c \in Callers |-> 0]
    /\ tret = [c \in Callers |-> "none"]
    /\ wire = <<>> /\ lastw = 0 /\ overlapped = FALSE /\ ncalls = 0

ConcRest == <<conn, pc, call, args, stream, locals, writes, ret, devMask, codec, pure>>

ConcLog == <<lastw, overlapped, ncalls>>

\* caller c invokes a command: sendRequest writes the frame, or fails
ConcCall(c) ==
    /\ tpc[c] = "idle"
    /\ \E op \in ConcCommands, werr \in {NoError, WriteError} :
           LET sent == SendRequest(CommandCode[op], <<>>, werr, 0)
           IN /\ ncalls < MaxCalls
              /\ ncalls' = ncalls + 1
              /\ tcall' = [tcall EXCEPT ![c] = op]
              /\ lastw' = c
              /\ overlapped' = (overlapped \/ \E d \in Callers \ {c} : InProgress(d))
              /\ IF sent.err # NoError
                 THEN /\ tpc' = [tpc EXCEPT ![c] = "done"]
                      /\ tret' = [tret EXCEPT ![c] = sent.err]
                      /\ UNCHANGED wire
                 ELSE /\ tpc' = [tpc EXCEPT ![c] = "read"]
                      /\ wire' = wire \o Tagged(ConcAnswer(op), c)
                      /\ UNCHANGED tret
    /\ UNCHANGED <<tbuf, ttries, ConcRest>>

\* one pass of the loop of readResponse by caller c: port.Read returns n bytes
ConcRead(c) ==
    /\ Reading(c)
    /\ ttries[c] + 1 < maxReadCount
    /\ \E n \in ReadSizes(wire) :
           LET b == tbuf[c] \o SubSeq(wire, 1, n)
               r == Validate(Bytes(b))
           IN /\ n = 0 => (wire = <<>> /\ ttries[c] < MaxPause)
              /\ ttries' = [ttries EXCEPT ![c] = @ + 1]
              /\ tbuf' = [tbuf EXCEPT ![c] = b]
              /\ wire' = SubSeq(wire, n + 1, Len(wire))
              /\ IF ~FrameComplete(Bytes(b), Len(b))
                 THEN UNCHANGED <<tpc, tret>>
                 ELSE IF Substantive(r)
                 THEN tpc' = [tpc EXCEPT ![c] = "ack"] /\ UNCHANGED tret
                 ELSE /\ tpc' = [tpc EXCEPT ![c] = "done"]
                      /\ \E x \in Returns(tcall[c], r) : tret' = [tret EXCEPT ![c] = x.err]
    /\ UNCHANGED <<tcall, ConcLog, ConcRest>>

\* port.Read fails for caller c
ConcReadFails(c) ==
    /\ Reading(c)
    /\ ttries[c] + 1 < maxReadCount
    /\ ttries' = [ttries EXCEPT ![c] = @ + 1]
    /\ tpc' = [tpc EXCEPT ![c] = "done"]
    /\ tret' = [tret EXCEPT ![c] = ReadError]
    /\ UNCHANGED <<tcall, tbuf, wire, ConcLog, ConcRest>>

\* nothing is left to read and the device stays silent: the passes of the
\* loop that remain, each reading 0 bytes, taken in one step up to the limit
ConcReadTriesExceeded(c) ==
    /\ Reading(c)
    /\ wire = <<>>
    /\ ttries' = [ttries EXCEPT ![c] = maxReadCount]
    /\ tpc' = [tpc EXCEPT ![c] = "done"]
    /\ tret' = [tret EXCEPT ![c] = ErrReadTries]
    /\ UNCHANGED <<tcall, tbuf, wire, ConcLog, ConcRest>>

\* Ack(v) by caller c, its error dropped; then the command decodes
ConcAck(c) ==
    /\ tpc[c] = "ack"
    /\ tpc' = [tpc EXCEPT ![c] = "done"]
    /\ \E x \in Returns(tcall[c], Validate(Bytes(tbuf[c]))) :
           tret' = [tret EXCEPT ![c] = x.err]
    /\ UNCHANGED <<tcall, tbuf, ttries, wire, ConcLog, ConcRest>>

\* the call of caller c has returned
ConcReturned(c) ==
    /\ tpc[c] = "done"
    /\ tpc' = [tpc EXCEPT ![c] = "idle"]
    /\ tcall' = [tcall EXCEPT ![c] = "none"]
    /\ tbuf' = [tbuf EXCEPT ![c] = <<>>]
    /\ ttries' = [ttries EXCEPT ![c] = 0]
    /\ tret' = [tret EXCEPT ![c] = "none"]
    /\ UNCHANGED <<wire, ConcLog, ConcRest>>

ConcNext ==
    \E c \in Callers :
        \/ ConcCall(c) \/ ConcRead(c) \/ ConcReadFails(c)
        \/ ConcReadTriesExceeded(c) \/ ConcAck(c) \/ ConcReturned(c)

SpecConc == ConcInit /\ [][ConcNext]_vars

(***************************************************************************)
(* What the wire shows, read off buf alone.                                *)
(***************************************************************************)
CommandDone == pc = "done" /\ call \in Commands

\* the loop of readResponse ended with a break
LoopBroke == totalRead >= 6 /\ (buf[3] = 0 \/ buf[3] = Len(buf))

WireHeaderOK == buf[1] = 2 /\ buf[2] = 3

WireChecksumOK ==
    buf[Len(buf) - 1] + 256 * buf[Len(buf)] = GetCRC16(SubSeq(buf, 1, Len(buf) - 2))

WireValid == LoopBroke /\ WireHeaderOK /\ WireChecksumOK

\* 4 bytes before the checksum, the fourth 0x00, 0xFF or 0x30
WireControl == Len(buf) = 6 /\ buf[4] \in {0, 255, 48}

WireSubstantive == WireValid /\ ~WireControl

ArgsInRange ==
    call \in {"SetSecurity", "EnableBillTypes"} => \A i \in 1..Len(args) : InRange(args[i])

\* the payload the call in progress hands to sendRequest
RequestPayload ==
    CASE call = "SetSecurity" -> EncodeMask(args[1])
      [] call = "EnableBillTypes" -> EncodeMask(args[1]) \o EncodeMask(args[2])
      [] call = "SetBarcodeParameters" -> <<args[1], args[2]>>
      [] OTHER -> <<>>

\* the payload of the frame in buf: what lies between the length byte and
\* the checksum
WirePayload == SubSeq(buf, 4, Len(buf) - 2)

\* the payload is shorter than the layout the command decodes
ShortPayload ==
    \/ call = "Identification" /\ Len(WirePayload) < 34
    \/ call = "GetBillTable" /\ Len(WirePayload) < 120
    \/ call = "GetStatus" /\ Len(WirePayload) < 3

\* the exponent an exponent byte stands for
ExponentOf(e) == IF e > 128 THEN 0 - (e - 128) ELSE e

AllZero(q) == \A i \in 1..Len(q) : q[i] = 0

\* f is start code, address, its own byte count, the code and the payload,
\* and two bytes more
FrameLayout(f, commandCode, payload) ==
    /\ Len(f) = 6 + Len(payload)
    /\ f[1] = 2 /\ f[2] = 3
    /\ f[3] = 6 + Len(payload) /\ f[3] = Len(f)
    /\ f[4] = commandCode
    /\ SubSeq(f, 5, Len(f) - 2) = payload

\* the last two bytes of f are the GetCRC16 of the bytes before them, low
\* byte first
FrameChecksum(f) ==
    LET crc == GetCRC16(SubSeq(f, 1, Len(f) - 2))
    IN f[Len(f) - 1] = crc % 256 /\ f[Len(f)] = crc \div 256

(***************************************************************************)
(* The claims.                                                             *)
(***************************************************************************)

\* C1: for every set S of bill types within 0..23, decoding the three mask
\* bytes that encode S (as GetStatus decodes, after SetSecurity and
\* EnableBillTypes encode) yields exactly S.
C1_RoundTrip == cpc = "decoded" => Range(cout) = cset

\* C2: against the stub device, GetStatus after EnableBillTypes returns the
\* enabled set that was sent and an empty security set.
C2_StubEcho ==
    (pc = "done" /\ call = "GetStatus" /\ ret.err = NoError)
        => Range(ret.a) = cset /\ ret.b = <<>>

\* C3: readResponse never makes more than maxReadCount reads, and when it
\* gives up with the retry-exhausted error it has made exactly maxReadCount.
C3_ExhaustedAfterMaxReads ==
    /\ reads <= maxReadCount
    /\ (pc = "done" /\ ret.err = ErrReadTries) => reads = maxReadCount

\* C4: a command that got a validated response that is no bare reply has
\* written, besides its request, exactly one ACK frame (code 0x00, empty
\* payload), after its last read and before it returns; in every other case
\* nothing but the request was written.
C4_AckExactlyOnce ==
    /\ pc \in {"read", "ack"} => Len(writes) = 1
    /\ CommandDone =>
           IF WireSubstantive
           THEN /\ Len(writes) = 2
                /\ writes[2].frame = <<2, 3, 6, 0>> \o PutUint16LE(GetCRC16(<<2, 3, 6, 0>>))
                /\ writes[2].at = reads
           ELSE Len(writes) <= 1

C4_Witness == CommandDone /\ call = "Poll" /\ WireSubstantive /\ Len(writes) = 2

\* C5: whatever stage of a command fails (the request write, a read, the
\* validation of the frame, the automatic ACK write), the command returns
\* that stage's error.
C5_NoErrorDiscarded ==
    CommandDone =>
        /\ \A i \in 1..Len(writes) : writes[i].err # NoError => ret.err = writes[i].err
        /\ readErr => ret.err = ReadError
        /\ (LoopBroke /\ ~WireHeaderOK) => ret.err = ErrFormat
        /\ (LoopBroke /\ WireHeaderOK /\ ~WireChecksumOK) => ret.err = ErrVerification

\* C6: a completed buffer whose first two bytes are not (0x02, 0x03) fails
\* with the frame-format error whatever its checksum bytes are; otherwise
\* one whose last two bytes, little-endian, differ from GetCRC16 of the rest
\* fails with the checksum-mismatch error; neither returns a payload.
C6_ValidationOrder ==
    (pc = "done" /\ LoopBroke) =>
        /\ ~WireHeaderOK =>
               rr = [payload |-> <<>>, err |-> ErrFormat] /\ ret = Fail(ErrFormat)
        /\ (WireHeaderOK /\ ~WireChecksumOK) =>
               rr = [payload |-> <<>>, err |-> ErrVerification] /\ ret = Fail(ErrVerification)

C6_Witness ==
    pc = "done" /\ LoopBroke /\ ~WireHeaderOK /\ WireChecksumOK /\ ret.err = ErrFormat

\* C7: a validated frame of exactly 4 bytes before its checksum is told by
\* its fourth byte: 0x00 is success with no payload, 0xFF the NACK error,
\* 0x30 the illegal-command error; any other validated frame is substantive
\* (it yields a payload and is acknowledged).
C7_ControlReplies ==
    (pc \in {"ack", "done"} /\ WireValid) =>
        IF Len(buf) = 6 /\ buf[4] = 0
        THEN rr = [payload |-> <<>>, err |-> NoError] /\ pc = "done" /\ Len(writes) = 1
        ELSE IF Len(buf) = 6 /\ buf[4] = 255
        THEN rr = [payload |-> <<>>, err |-> ErrNack] /\ ret = Fail(ErrNack)
        ELSE IF Len(buf) = 6 /\ buf[4] = 48
        THEN rr = [payload |-> <<>>, err |-> ErrIllegal] /\ ret = Fail(ErrIllegal)
        ELSE /\ rr.err = NoError /\ rr.payload # <<>>
             /\ pc = "done" => Len(writes) = 2

C7_Witness ==
    pc = "done" /\ WireValid /\ Len(buf) = 7 /\ buf[4] = 255 /\ rr.err = NoError

\* C8 as claimed: of a validated substantive response, readResponse returns
\* the bytes after the one at index 3 (from index 4 up to the checksum).
C8_PayloadAfterEcho ==
    (pc \in {"ack", "done"} /\ WireSubstantive)
        => rr.payload = SubSeq(buf, 5, Len(buf) - 2)

\* C8 as amended: readResponse returns the bytes from index 3 up to the
\* checksum (start code, address and length byte dropped, the byte at index
\* 3 kept as the first one), and Poll takes its status from the byte at
\* index 3 and its parameter from the one at index 4, or 0 if there is none.
C8_PayloadFromIndex3 ==
    (pc \in {"ack", "done"} /\ WireSubstantive) =>
        /\ rr.payload = SubSeq(buf, 4, Len(buf) - 2)
        /\ (pc = "done" /\ call = "Poll") =>
               /\ ret.err = NoError
               /\ ret.a = <<buf[4]>>
               /\ ret.b = <<IF Len(buf) > 6 THEN buf[5] ELSE 0>>

C8_Witness ==
    pc = "done" /\ call = "Poll" /\ WireSubstantive /\ Len(buf) = 7 /\ ret.b = <<96>>

\* C9: Open on a closed connection opens it when the transport opens (on a
\* handle not yet released) and leaves it closed when the transport does
\* not; Open on an open connection is an error and keeps the handle; Close
\* on an open connection releases the handle and closes, also when the
\* transport's close fails; Close on a closed connection is an error.
C9_Lifecycle ==
    [][/\ (pc = "idle" /\ pc' = "done" /\ call' = "Open") =>
              IF open
              THEN ret'.err = ErrAlreadyOpened /\ open' /\ port' = port /\ released' = released
              ELSE \/ ret'.err = NoError /\ open' /\ port' # 0 /\ port' \notin released'
                   \/ ret'.err = OpenError /\ ~open' /\ port' = port /\ released' = released
       /\ (pc = "idle" /\ pc' = "done" /\ call' = "Close") =>
              IF open
              THEN /\ ~open' /\ port' = port /\ released' = released \cup {port}
                   /\ ret'.err \in {NoError, CloseError}
              ELSE ret'.err = ErrNotOpened /\ ~open' /\ released' = released
      ]_vars

C9_Witness ==
    pc = "done" /\ call = "Open" /\ ret.err = NoError /\ open /\ released # {}
        /\ port \notin released

\* C10: a command invoked on a closed connection writes nothing and reads
\* nothing, and (its bill-type sets being within 0..23) returns the
\* connection-state error.
C10_ClosedRefused ==
    (CommandDone /\ ~open) =>
        /\ writes = <<>> /\ reads = 0
        /\ ArgsInRange => ret = Fail(ErrClosed)

C10_Witness ==
    CommandDone /\ ~open /\ port # 0 /\ call = "EnableBillTypes" /\ ret.err = ErrClosed

\* C11: SetSecurity and EnableBillTypes, given a set with a bill type
\* outside 0..23, write no request frame and return an error to the caller.
C11_InvalidIndexError ==
    (CommandDone /\ ~ArgsInRange) =>
        /\ writes = <<>> /\ reads = 0
        /\ ret.err \notin {NoError, Panic}

\* C12: a command the device answers with a bare ACK (a valid frame of 4
\* bytes before the checksum, the fourth 0x00) returns no error and an
\* empty result, whichever command it is.
C12_BareAckSuccess ==
    (CommandDone /\ WireValid /\ Len(buf) = 6 /\ buf[4] = 0) => ret = Fail(NoError)

\* C13: the request frame of a command is 0x02, 0x03, a length byte equal
\* to 6 + len(payload) and to the frame's byte count, the command code, the
\* payload and the little-endian GetCRC16 of all bytes before it, written
\* with one transport write made before any read; the automatic ACK is
\* framed the same way.  (The checksum of a frame is recomputed in the step
\* that writes it, and no later step changes a frame written.)
C13_RequestFrame ==
    /\ [][/\ (writes = <<>> /\ writes' # <<>>) =>
                 Len(writes') = 1 /\ FrameChecksum(writes'[1].frame)
          /\ (writes # <<>> /\ writes' # <<>>) =>
                 /\ SubSeq(writes', 1, Len(writes)) = writes
                 /\ Len(writes') > Len(writes) =>
                        /\ Len(writes') = Len(writes) + 1
                        /\ FrameLayout(writes'[Len(writes')].frame, 0, <<>>)
                        /\ FrameChecksum(writes'[Len(writes')].frame)
         ]_vars
    /\ []((call \in Commands /\ writes # <<>>) =>
              /\ FrameLayout(writes[1].frame, CommandCode[call], RequestPayload)
              /\ writes[1].at = 0
              /\ pc = "read" => Len(writes) = 1)

C13_Witness ==
    pc = "read" /\ call = "EnableBillTypes" /\ Len(writes[1].frame) = 12
        /\ SubSeq(writes[1].frame, 3, 10) = <<12, 52, 0, 0, 7, 128, 0, 0>>

\* C14 as claimed: GetCRC16 returns 0 for the empty input and for no other.
C14_ZeroOnlyForEmpty ==
    fpc \in {"crc", "sealed"} => (fout[1] = 0 <=> fin = <<>>)

\* C14 as amended: GetCRC16 returns 0 for the empty input and also for
\* non-empty ones: for every input of zero bytes only, and for every input
\* followed by its own little-endian checksum; on inputs of one or two bytes
\* it returns 0 exactly when every byte is 0.
C14_ZeroChecksum ==
    /\ fpc = "crc" =>
           /\ AllZero(fin) => fout[1] = 0
           /\ Len(fin) <= 2 => (fout[1] = 0 <=> AllZero(fin))
    /\ fpc = "sealed" => fout[1] = 0

C14_Witness ==
    fpc = "sealed" /\ Len(fin) = 3 /\ fin[1] = 255 /\ fin[2] # 0 /\ fout = <<0>>

\* C15: a transport error is not retried.  A failed request write ends the
\* command with that error and no read; a failed read ends readResponse at
\* once with that error: it is the last read, nothing is written after it,
\* and the tries that remain are not used.
C15_NoRetry ==
    /\ (CommandDone /\ writes # <<>> /\ writes[1].err # NoError) =>
           reads = 0 /\ Len(writes) = 1 /\ ret = Fail(writes[1].err)
    /\ readErr =>
           /\ pc = "done"
           /\ rr = [payload |-> <<>>, err |-> ReadError] /\ ret = Fail(ReadError)
           /\ Len(writes) = 1
           /\ readTriesCount = reads /\ reads < maxReadCount

C15_Witness ==
    readErr /\ pc = "done" /\ reads = 2 /\ Len(buf) = 3 /\ stream # <<>>
        /\ ret.err = ReadError

\* C16: of a payload of at least 120 bytes GetBillTable returns 24
\* entries, entry i made of payload bytes 5i..5i+4 alone: the denomination
\* is the byte at 5i times 10 to the exponent of the byte at 5i+4 (e itself,
\* or -(e - 0x80) when e > 0x80), the country code the bytes 5i+1..5i+3.
C16_BillTable ==
    (fpc = "decoded" /\ Len(fin) >= 120) =>
        /\ fout[1].err = NoError /\ ~fout[1].beyond
        /\ Len(fout[1].a) = 24
        /\ \A i \in 0..23 :
               /\ fout[1].a[i + 1].Denomination = <<fin[5 * i + 1], ExponentOf(fin[5 * i + 5])>>
               /\ fout[1].a[i + 1].CountryCode = <<fin[5 * i + 2], fin[5 * i + 3], fin[5 * i + 4]>>
               /\ (fin[5 * i + 1] = 5 /\ fin[5 * i + 5] = 0) =>
                      fout[1].a[i + 1].Denomination = <<5, 0>>
               /\ (fin[5 * i + 1] = 5 /\ fin[5 * i + 5] = 130) =>
                      fout[1].a[i + 1].Denomination = <<5, 0 - 2>>

C16_Witness ==
    /\ fpc = "decoded" /\ Len(fin) = 121
    /\ fin[116] = 5 /\ fin[120] = 130
    /\ fout[1].a[24] = [Denomination |-> <<5, 0 - 2>>, CountryCode |-> <<85, 83, 65>>]
    /\ fout[1].a[23] = [Denomination |-> <<9, 1>>, CountryCode |-> <<90, 90, 90>>]

\* C17: readResponse goes on reading exactly as long as fewer than 6 bytes
\* are accumulated or the byte at index 2 is neither 0 nor the accumulated
\* byte count, and a buffer is validated only when, after the last read, it
\* has at least 6 bytes and its byte at index 2 is 0 or its byte count.
C17_LoopExit ==
    /\ totalRead = Len(buf)
    /\ pc = "read" => (Len(buf) < 6 \/ (buf[3] # 0 /\ buf[3] # Len(buf)))
    /\ (pc \in {"ack", "done"} /\ rr.err \notin {"none", ErrReadTries, ReadError}) =>
           Len(buf) >= 6 /\ (buf[3] = 0 \/ buf[3] = Len(buf))
    /\ (pc \in {"ack", "done"} /\ Len(buf) >= 6 /\ (buf[3] = 0 \/ buf[3] = Len(buf))) =>
           rr.err \notin {"none", ErrReadTries, ReadError}

C17_Witness ==
    pc = "read" /\ reads = 2 /\ Len(buf) = 6 /\ buf[3] = 7 /\ Len(stream) = 1

\* C19: the sets GetStatus returns for a validated substantive response
\* hold bill types within 0..23 only, the enabled set decoded from the first
\* three payload bytes and the security set from three payload bytes too.
C19_MaskRange ==
    (CommandDone /\ call = "GetStatus" /\ WireSubstantive /\ ret.err = NoError) =>
        /\ \A t \in Range(ret.a) \cup Range(ret.b) : t \in 0..23
        /\ ret.a = DecodeMask(SubSeq(WirePayload, 1, 3))
        /\ \E k \in 1..(Len(WirePayload) - 2) :
               ret.b = DecodeMask(SubSeq(WirePayload, k, k + 2))

\* C20: a command whose validated substantive response is shorter than the
\* layout it decodes returns an error to the caller and reads no byte
\* behind the end of the payload.
C20_ShortPayloadError ==
    (CommandDone /\ WireSubstantive /\ ShortPayload) =>
        ret.err \notin {NoError, Panic} /\ ~ret.beyond

\* C18: nothing in the connection keeps two callers apart (the witness is a
\* state in which both requests were written before any read and the first
\* read of one caller took bytes of the answer to the other); as long as
\* no call begins while another is in progress, every read is made by a
\* caller inside its own command, after that command's request was written
\* and before any other request is.
C18_SequentialOrder ==
    [][\A c \in Callers :
           (~overlapped' /\ ttries'[c] > ttries[c]) =>
               /\ tpc[c] = "read" /\ lastw = c
               /\ \A d \in Callers \ {c} : ~InProgress(d)
      ]_vars

C18_Witness ==
    /\ overlapped /\ tpc[1] = "read" /\ tpc[2] = "read"
    /\ ttries[1] = 1 /\ ttries[2] = 0
    /\ Len(tbuf[1]) = 12
    /\ tbuf[1][1].of = 2 /\ tbuf[1][12].of = 1
    /\ lastw = 1

====
